---- MODULE Spec2Model ----
(***************************************************************************)
(* Walkathon dashboard (src/app.py): the scoring function, the loading and *)
(* normalisation of the uploaded table, the team/date filter and the       *)
(* aggregates computed for the tabs, as one run of the Streamlit script.   *)
(*                                                                         *)
(* pandas values are modelled as follows.                                  *)
(*   - a DataFrame is a sequence of rows; a row is a record whose idx      *)
(*     field is the row's index label;                                     *)
(*   - a missing number (float NaN) is the value NaN, a missing Team is    *)
(*     the value NoTeam;                                                   *)
(*   - a Timestamp is a number of hours since the first day's midnight,    *)
(*     a calendar date is a number of days;                                *)
(*   - a float result of a division is the pair <<numerator, denominator>>,*)
(*     so 0/0, which pandas reports as NaN, is <<0, 0>>.                   *)
(***************************************************************************)
EXTENDS Integers, Sequences, FiniteSets, TLC

\* ------------------------------------------------------------------ bounds
\* Rows of a long-format input table.
MaxRows == 2
\* Calendar days the input data and the date range can name.
NumDays == 2
\* Half-width of the windows of step counts around 0, 8000 and 15000 that
\* the scoring function is applied to.
ScoreDelta == 1

\* ----------------------------------------------------------- value domains
\* float NaN in a numeric column (a number no step count of the model takes).
NaN == 999999999
\* NaN in the Team column (Series.map of a name the dict lacks; an empty cell).
NoTeam == "nan"
\* NaN as the result of a float division 0/0 (mean of nothing).
NaNF == <<0, 0>>

Days == 0 .. (NumDays - 1)
\* Time of day, in hours, of the timestamps of one input file.
DayHours == {0, 12}
Stamp(d, h) == 24 * d + h
StepValues == {7999, 8000}
CellValues == StepValues \cup {NaN}

Range(s) == {s[i] : i \in DOMAIN s}

\* ---------------------------------------------------------------- scoring
\* Python float comparison and arithmetic: every comparison with NaN is
\* False, every sum or difference with NaN is NaN.
Lt(a, b) == a # NaN /\ b # NaN /\ a < b
Ge(a, b) == a # NaN /\ b # NaN /\ a >= b
Plus(a, b) == IF a = NaN \/ b = NaN THEN NaN ELSE a + b
Minus(a, b) == IF a = NaN \/ b = NaN THEN NaN ELSE a - b

\* Mutant: the first tier takes the threshold itself (steps <= 8000).
calculate_score_le(steps) ==
    IF ~Lt(8000, steps) /\ steps # NaN THEN steps
    ELSE IF Ge(steps, 15000) THEN 23000
    ELSE Plus(16000, Minus(steps, 8000))

\* Mutant: the middle tier loses its 16000 base.
calculate_score_nobase(steps) ==
    IF Lt(steps, 8000) THEN steps
    ELSE IF Ge(steps, 15000) THEN 23000
    ELSE Plus(6000, Minus(steps, 8000))

calculate_score(steps) ==
    IF Lt(steps, 8000) THEN steps
    ELSE IF Ge(steps, 15000) THEN 23000
    ELSE Plus(16000, Minus(steps, 8000))

\* ------------------------------------------------------------ input tables
RECURSIVE SetToSeq(_)
SetToSeq(S) ==
    IF S = {} THEN <<>>
    ELSE LET x == CHOOSE y \in S : TRUE IN <<x>> \o SetToSeq(S \ {x})

RECURSIVE SubsetsUpTo(_, _)
SubsetsUpTo(S, k) ==
    IF k = 0 THEN {{}}
    ELSE LET P == SubsetsUpTo(S, k - 1) IN P \cup {T \cup {r} : T \in P, r \in S}

RECURSIVE SortedSeq(_)
SortedSeq(S) ==
    IF S = {} THEN <<>>
    ELSE LET m == CHOOSE x \in S : \A y \in S : x <= y
         IN <<m>> \o SortedSeq(S \ {m})

\* The participant-to-team lookup of the wide-format branch.
team_map ==
    [p \in {"Pranav", "Akshra", "Charishma", "Yash", "Vaishnavi"} |-> "Team 1"] @@
    [p \in {"Nisha", "Pavana", "Sakshi", "Muskan", "Ojasvi"} |-> "Team 2"] @@
    [p \in {"Ritesh", "Pravat", "Pragya", "Divyam", "Kasis"} |-> "Team 3"] @@
    [p \in {"Murali", "Surbhi", "Ankita", "Rohit", "Vanshita"} |-> "Team 4"]

\* (Participant, Team) pairs of the rows of a long-format file; a Team cell
\* may be empty.
LongPeople == {<<"Pranav", "Team 1">>, <<"Nisha", "Team 2">>, <<"Guest", NoTeam>>}

\* Long-format files: one to MaxRows distinct rows Date,Participant,Team,Steps,
\* an empty Steps cell being read as NaN.
LongRowsOf(h) ==
    {[Date |-> Stamp(d, h), Participant |-> p[1], Team |-> p[2], Steps |-> s] :
        d \in Days, p \in LongPeople, s \in CellValues}
LongTables(h) == {SetToSeq(S) : S \in SubsetsUpTo(LongRowsOf(h), MaxRows) \ {{}}}

\* Wide-format sheets: a Date column and one column per participant, one
\* row per day, an empty cell being read as NaN. "Guest" is a participant
\* the lookup does not know.
WideHeaders == {<<"Pranav", "Nisha">>, <<"Pranav", "Guest">>, <<"Nisha">>}
WideRows(header, h, Ds, c) ==
    LET ds == SortedSeq(Ds)
    IN [j \in 1 .. Len(ds) |-> [Date |-> Stamp(ds[j], h), cells |-> c[ds[j]]]]
WideTables(header, h) ==
    UNION {{[header |-> header, rows |-> WideRows(header, h, Ds, c)] :
               c \in [Ds -> [Range(header) -> CellValues]]} : Ds \in SUBSET Days}

\* ------------------------------------------------ loading and normalising
\* pd.read_csv / pd.read_excel of a long-format table: the rows as they are,
\* labelled 0, 1, ...; no row is removed.
read_table(T) == [i \in 1 .. Len(T) |-> ("idx" :> (i - 1)) @@ T[i]]

\* DataFrame.melt(id_vars=["Date"], value_vars=participants): one row per
\* (participant column, date row), column by column.
melt(header, rows) ==
    [k \in 1 .. (Len(header) * Len(rows)) |->
        LET i == ((k - 1) \div Len(rows)) + 1
            j == ((k - 1) % Len(rows)) + 1
        IN [idx |-> k - 1, Date |-> rows[j].Date, Participant |-> header[i],
            Steps |-> rows[j].cells[header[i]]]]

\* Mutant: missing cells are zero-filled instead of dropped.
dropna_zero(t) == [k \in DOMAIN t |-> IF t[k].Steps = NaN THEN [t[k] EXCEPT !.Steps = 0] ELSE t[k]]

\* .dropna(subset=["Steps"])
dropna(t) == SelectSeq(t, LAMBDA r : r.Steps # NaN)

\* df["Team"] = df["Participant"].map(team_map)
map_team(t) ==
    [k \in DOMAIN t |->
        ("Team" :> (IF t[k].Participant \in DOMAIN team_map
                    THEN team_map[t[k].Participant] ELSE NoTeam)) @@ t[k]]

\* df["Score"] = df["Steps"].apply(calculate_score)
apply_score(t) == [k \in DOMAIN t |-> ("Score" :> calculate_score(t[k].Steps)) @@ t[k]]

\* Series.unique().tolist(): the distinct values in order of first appearance.
RECURSIVE unique(_)
unique(s) ==
    IF s = <<>> THEN <<>>
    ELSE LET u == unique(SubSeq(s, 1, Len(s) - 1))
         IN IF s[Len(s)] \in Range(u) THEN u ELSE Append(u, s[Len(s)])

Column(t, name) == [k \in DOMAIN t |-> t[k][name]]

\* ------------------------------------------------------------- pandas ops
\* Series.sum(), Series.max(), Series.min(), Series.mean(): NaN is skipped;
\* the sum of nothing is 0, the max, min and mean of nothing are NaN.
RECURSIVE series_sum(_)
series_sum(s) ==
    IF s = <<>> THEN 0
    ELSE (IF Head(s) = NaN THEN 0 ELSE Head(s)) + series_sum(Tail(s))
series_max(s) ==
    LET V == Range(s) \ {NaN}
    IN IF V = {} THEN NaN ELSE CHOOSE x \in V : \A y \in V : x >= y
series_min(s) ==
    LET V == Range(s) \ {NaN}
    IN IF V = {} THEN NaN ELSE CHOOSE x \in V : \A y \in V : x <= y
series_mean(s) ==
    LET v == SelectSeq(s, LAMBDA x : x # NaN) IN <<series_sum(v), Len(v)>>

\* Series.dt.date: the calendar date of a timestamp.
date_of(ts) == ts \div 24

\* Mutant: the right end of the range is excluded.
between_halfopen(x, lo, hi) == lo <= x /\ x < hi

\* Series.between(left, right), inclusive="both".
between(x, lo, hi) == lo <= x /\ x <= hi

\* df["Team"].isin(sel_teams) & df["Date"].dt.date.between(...); isin finds
\* a missing Team when the list holds the missing value.
mask(t, st, sd) ==
    [k \in DOMAIN t |->
        t[k].Team \in st /\ between(date_of(t[k].Date), sd[1], sd[2])]

\* df[mask]: the rows whose mask is True, in order, with their labels.
select(t, m) ==
    LET F[k \in 0 .. Len(t)] ==
            IF k = 0 THEN <<>>
            ELSE IF m[k] THEN Append(F[k - 1], t[k]) ELSE F[k - 1]
    IN F[Len(t)]

\* groupby(by)[val].sum(): one group per key present, rows with a missing
\* key left out (dropna=True); by is a sequence of column names.
is_missing(col, v) == IF col \in {"Team", "Participant"} THEN v = NoTeam ELSE v = NaN
key_of(r, by) == [i \in DOMAIN by |-> r[by[i]]]
has_key(r, by) == \A i \in DOMAIN by : ~is_missing(by[i], r[by[i]])

groupby_sum(t, by, val) ==
    LET keys == {key_of(t[k], by) : k \in {j \in DOMAIN t : has_key(t[j], by)}}
    IN [g \in keys |->
            series_sum(Column(SelectSeq(t, LAMBDA r : key_of(r, by) = g), val))]

\* sort_values(ascending=False) with the default kind="quicksort", which is
\* not a stable sort: every order of the keys with non-increasing values.
sort_desc(f) ==
    {o \in [1 .. Cardinality(DOMAIN f) -> DOMAIN f] :
        /\ \A i, j \in DOMAIN o : i # j => o[i] # o[j]
        /\ \A i, j \in DOMAIN o : i < j => f[o[i]] >= f[o[j]]}

\* .pivot(index="Date", columns="Team", values="Score"): rows by ascending
\* Date, one cell per Team, NaN where the (Date, Team) group is absent.
pivot(g) ==
    LET index == SortedSeq({k[1] : k \in DOMAIN g})
        columns == {k[2] : k \in DOMAIN g}
    IN [i \in DOMAIN index |->
            [Date |-> index[i],
             vals |-> [c \in columns |->
                          IF <<index[i], c>> \in DOMAIN g
                          THEN g[<<index[i], c>>] ELSE NaN]]]

\* Mutant: the absent cells stay NaN.
fillna_none(p, v) == p

\* .fillna(0)
fillna(p, v) ==
    [i \in DOMAIN p |->
        [p[i] EXCEPT !.vals = [c \in DOMAIN p[i].vals |->
                                  IF p[i].vals[c] = NaN THEN v ELSE p[i].vals[c]]]]

\* .cumsum(): running sum down each column; a NaN cell stays NaN and is
\* skipped by the sum.
cumsum(p) ==
    [i \in DOMAIN p |->
        [p[i] EXCEPT !.vals = [c \in DOMAIN p[i].vals |->
            IF p[i].vals[c] = NaN THEN NaN
            ELSE series_sum([j \in 1 .. i |-> p[j].vals[c]])]]]

\* ------------------------------------------------------------- the views
\* groupby("Date")["Score"].sum().mean()
avg_daily(f) ==
    LET daily == groupby_sum(f, <<"Date">>, "Score")
        ks == SetToSeq(DOMAIN daily)
    IN series_mean([i \in DOMAIN ks |-> daily[ks[i]]])

\* (df_filt["Steps"] >= 8000).mean() * 100
pct_at_least_8k(f) ==
    <<100 * Cardinality({k \in DOMAIN f : Ge(f[k].Steps, 8000)}), Len(f)>>

\* The radar chart's list for one team: sum, mean, max, min of its scores.
team_stats(f, team) ==
    LET scores == Column(SelectSeq(f, LAMBDA r : r.Team = team), "Score")
    IN [Total |-> series_sum(scores), Average |-> series_mean(scores),
        Max |-> series_max(scores), Min |-> series_min(scores)]

\* df_anim: Score summed by (day string, Team); range_x's upper end is its
\* largest Score times 1.1.
race_max(f) ==
    LET days == [k \in DOMAIN f |-> ("Day" :> date_of(f[k].Date)) @@ f[k]]
        g == groupby_sum(days, <<"Day", "Team">>, "Score")
        ks == SetToSeq(DOMAIN g)
    IN series_max([i \in DOMAIN ks |-> g[ks[i]]])
range_upper(m) == IF m = NaN THEN NaNF ELSE <<11 * m, 10>>

VARIABLES
    pc,              \* position of the script run
    fmt,             \* "long" or "wide": whether the melt branch ran
    raw,             \* the table as read from the file
    df,              \* the DataFrame after normalisation, with Score
    teams,           \* df["Team"].unique().tolist()
    sel_teams,       \* the multiselect's value
    sel_dates,       \* the date_input's value
    df_filt,
    total_steps, avg_daily_score, pct_8k,
    team_totals, indv, cum, radar_dict, range_x,
    steps_in,        \* arguments calculate_score is applied to
    score_out        \* its results

vars == <<pc, fmt, raw, df, teams, sel_teams, sel_dates, df_filt,
          total_steps, avg_daily_score, pct_8k, team_totals, indv, cum,
          radar_dict, range_x, steps_in, score_out>>

loadVars == <<fmt, raw, df, teams>>
viewVars == <<sel_teams, sel_dates, df_filt, total_steps, avg_daily_score,
              pct_8k, team_totals, indv, cum, radar_dict, range_x>>
scoreVars == <<steps_in, score_out>>

\* ----------------------------------------------------------------- script
Init ==
    /\ pc = "start"
    /\ fmt = "none" /\ raw = <<>> /\ df = <<>> /\ teams = <<>>
    /\ sel_teams = {} /\ sel_dates = <<>> /\ df_filt = <<>>
    /\ total_steps = 0 /\ avg_daily_score = NaNF /\ pct_8k = NaNF
    /\ team_totals = <<>> /\ indv = <<>> /\ cum = <<>>
    /\ radar_dict = <<>> /\ range_x = NaNF
    /\ steps_in = <<>> /\ score_out = <<>>

\* Lines 63-65: neither the demo box nor an upload; the run stops.
NoFile ==
    /\ pc = "start"
    /\ pc' = "stopped"
    /\ UNCHANGED <<loadVars, viewVars, scoreVars>>

\* Lines 41-47, 67-68: a table that already has the Participant column (the
\* demo file, an uploaded csv, an uploaded sheet) is used as read.
LoadLong ==
    /\ pc = "start"
    /\ \E h \in DayHours :
         \E T \in LongTables(h) :
            LET d == apply_score(read_table(T))
            IN /\ fmt' = "long" /\ raw' = T
               /\ df' = d
               /\ teams' = unique(Column(d, "Team"))
    /\ pc' = "loaded"
    /\ UNCHANGED <<viewVars, scoreVars>>

\* Lines 47-62, 67-68: an uploaded sheet without a Participant column is
\* melted, its missing cells dropped, and the teams looked up.
LoadWide ==
    /\ pc = "start"
    /\ \E header \in WideHeaders, h \in DayHours :
         \E W \in WideTables(header, h) :
            LET d == apply_score(map_team(dropna(melt(W.header, W.rows))))
            IN /\ fmt' = "wide" /\ raw' = W
               /\ df' = d
               /\ teams' = unique(Column(d, "Team"))
    /\ pc' = "loaded"
    /\ UNCHANGED <<viewVars, scoreVars>>

\* Lines 44-45, 67: an uploaded csv in the wide layout is not melted;
\* df["Steps"] raises KeyError.
LoadWideCsv ==
    /\ pc = "start"
    /\ \E header \in WideHeaders, h \in DayHours :
         \E W \in WideTables(header, h) :
            /\ fmt' = "wide" /\ raw' = W
    /\ pc' = "crashed"
    /\ UNCHANGED <<df, teams, viewVars, scoreVars>>

\* Lines 69-224: the widgets' values, the filter and the tabs.
Render ==
    /\ pc = "loaded"
    /\ \E st \in SUBSET Range(teams), a \in Days, b \in Days :
         /\ a <= b
         /\ LET f == select(df, mask(df, st, <<a, b>>))
                tt == groupby_sum(f, <<"Team">>, "Score")
                pt == groupby_sum(f, <<"Participant", "Team">>, "Score")
            IN /\ sel_teams' = st
               /\ sel_dates' = <<a, b>>
               /\ df_filt' = f
               /\ total_steps' = series_sum(Column(f, "Steps"))
               /\ avg_daily_score' = avg_daily(f)
               /\ pct_8k' = pct_at_least_8k(f)
               /\ \E o \in sort_desc(tt) :
                    /\ team_totals' = [i \in DOMAIN o |-> [Team |-> o[i][1], Score |-> tt[o[i]]]]
                    /\ radar_dict' = [i \in DOMAIN o |-> [Team |-> o[i][1], stats |-> team_stats(f, o[i][1])]]
               /\ \E o \in sort_desc(pt) :
                    indv' = [i \in DOMAIN o |->
                                [Participant |-> o[i][1], Team |-> o[i][2], Score |-> pt[o[i]]]]
               /\ cum' = cumsum(fillna(pivot(groupby_sum(f, <<"Date", "Team">>, "Score")), 0))
               /\ range_x' = range_upper(race_max(f))
    /\ pc' = "done"
    /\ UNCHANGED <<loadVars, scoreVars>>

\* Lines 71, 76: while only the first day of the range is picked the
\* date_input's value has one element; sel_dates[1] raises IndexError.
RenderPartialRange ==
    /\ pc = "loaded"
    /\ \E st \in SUBSET Range(teams), a \in Days :
         /\ sel_teams' = st
         /\ sel_dates' = <<a>>
    /\ pc' = "crashed"
    /\ UNCHANGED <<loadVars, scoreVars, df_filt, total_steps, avg_daily_score,
                   pct_8k, team_totals, indv, cum, radar_dict, range_x>>

\* Lines 70-71: with no row left in df (every cell of the sheet missing),
\* df["Date"].min() is NaT; whether st.date_input takes NaT as its default
\* is not decided by this code, so the run may end here or go on (Render).
RenderNoDates ==
    /\ pc = "loaded"
    /\ df = <<>>
    /\ pc' = "crashed"
    /\ UNCHANGED <<loadVars, viewVars, scoreVars>>

\* Streamlit runs the script again from the top on the next interaction.
Rerun ==
    /\ pc \in {"stopped", "crashed", "done"}
    /\ pc' = "start"
    /\ fmt' = "none" /\ raw' = <<>> /\ df' = <<>> /\ teams' = <<>>
    /\ sel_teams' = {} /\ sel_dates' = <<>> /\ df_filt' = <<>>
    /\ total_steps' = 0 /\ avg_daily_score' = NaNF /\ pct_8k' = NaNF
    /\ team_totals' = <<>> /\ indv' = <<>> /\ cum' = <<>>
    /\ radar_dict' = <<>> /\ range_x' = NaNF
    /\ UNCHANGED scoreVars

Next ==
    \/ NoFile \/ LoadLong \/ LoadWide \/ LoadWideCsv
    \/ Render \/ RenderPartialRange \/ RenderNoDates \/ Rerun

Spec == Init /\ [][Next]_vars

\* --------------------------------------------- the scoring function alone
\* Step counts in windows around 0 and around the two thresholds.
ScoreArgs == UNION {(c - ScoreDelta) .. (c + ScoreDelta) : c \in {0, 8000, 15000}}

InitScore ==
    /\ pc = "score"
    /\ fmt = "none" /\ raw = <<>> /\ df = <<>> /\ teams = <<>>
    /\ sel_teams = {} /\ sel_dates = <<>> /\ df_filt = <<>>
    /\ total_steps = 0 /\ avg_daily_score = NaNF /\ pct_8k = NaNF
    /\ team_totals = <<>> /\ indv = <<>> /\ cum = <<>>
    /\ radar_dict = <<>> /\ range_x = NaNF
    /\ steps_in \in ScoreArgs \X ScoreArgs
    /\ score_out = <<>>

\* Series.apply(calculate_score) on the two step counts.
ApplyScore ==
    /\ pc = "score"
    /\ score_out' = [i \in DOMAIN steps_in |-> calculate_score(steps_in[i])]
    /\ pc' = "scored"
    /\ UNCHANGED <<loadVars, viewVars, steps_in>>

NextScore == ApplyScore

SpecScore == InitScore /\ [][NextScore]_vars

\* ----------------------------------------------------------------- claims
\* C1: for every integer steps, calculate_score(steps) is steps below 8000,
\* 23000 from 15000 on and 16000 + (steps - 8000) in between; in particular
\* score(7999) = 7999, score(8000) = 16000, score(14999) = 22999 and
\* score(15000) = 23000.
C1_ScoreTiers ==
    pc = "scored" =>
        \A i \in DOMAIN steps_in :
            LET s == steps_in[i]
                v == score_out[i]
            IN /\ s < 8000 => v = s
               /\ s >= 15000 => v = 23000
               /\ (8000 <= s /\ s < 15000) => v = 16000 + (s - 8000)
               /\ s = 7999 => v = 7999
               /\ s = 8000 => v = 16000
               /\ s = 14999 => v = 22999
               /\ s = 15000 => v = 23000
C1_Witness ==
    pc = "scored" /\ steps_in = <<8000, 14999>> /\ score_out = <<16000, 22999>>

\* C2: calculate_score is non-decreasing on [0, 15000) and is the constant
\* 23000 from 15000 on.
C2_ScoreMonotone ==
    pc = "scored" =>
        /\ \A i, j \in DOMAIN steps_in :
              (0 <= steps_in[i] /\ steps_in[i] <= steps_in[j] /\ steps_in[j] < 15000)
                  => score_out[i] <= score_out[j]
        /\ \A i \in DOMAIN steps_in : steps_in[i] >= 15000 => score_out[i] = 23000
C2_Witness ==
    pc = "scored" /\ steps_in = <<7999, 8000>> /\ score_out[1] < score_out[2]

\* C3: the TeamTotals values add up to the sum of Score over all the records
\* that pass the filter, records with a missing team included.
C3_TeamTotalsPartition ==
    pc = "done" =>
        series_sum(Column(team_totals, "Score")) = series_sum(Column(df_filt, "Score"))

\* C4: a record is in df_filt if and only if its Team is one of the selected
\* teams and its calendar date d satisfies start <= d <= end, both ends
\* included; the records of df_filt are records of df.
C4_FilterIff ==
    pc = "done" =>
        /\ \A k \in DOMAIN df :
              (\E j \in DOMAIN df_filt : df_filt[j].idx = df[k].idx)
              <=> /\ df[k].Team \in sel_teams
                  /\ \E d \in Days :
                        /\ 24 * d <= df[k].Date /\ df[k].Date < 24 * (d + 1)
                        /\ sel_dates[1] <= d /\ d <= sel_dates[2]
        /\ \A j \in DOMAIN df_filt : df_filt[j] \in Range(df)
C4_Witness ==
    /\ pc = "done"
    /\ sel_dates[1] < sel_dates[2]
    /\ \E i, j \in DOMAIN df_filt :
          /\ df_filt[i].Date \div 24 = sel_dates[1]
          /\ df_filt[j].Date \div 24 = sel_dates[2]
          /\ df_filt[j].Date % 24 # 0
    /\ Len(df_filt) < Len(df)

\* C5: when no record passes the filter, AvgDailyScore and PctAtOrAbove8k
\* are an explicit "no data" signal, not NaN.
C5_NoDataSignal ==
    (pc = "done" /\ df_filt = <<>>) => (avg_daily_score # NaNF /\ pct_8k # NaNF)

\* C6: in the cumulative-by-team table the last date row holds, in each
\* team column, that team's TeamTotals value, and the columns are the teams
\* of TeamTotals.
C6_CumLastRow ==
    pc = "done" =>
        IF cum = <<>> THEN team_totals = <<>>
        ELSE LET last == cum[Len(cum)].vals
             IN /\ DOMAIN last = {team_totals[i].Team : i \in DOMAIN team_totals}
                /\ \A i \in DOMAIN team_totals :
                      last[team_totals[i].Team] = team_totals[i].Score
C6_Witness ==
    /\ pc = "done"
    /\ Len(cum) >= 2
    /\ Len(team_totals) >= 2
    /\ \E i \in DOMAIN team_totals :
          /\ team_totals[i].Score > 0
          /\ \A k \in DOMAIN df_filt :
                df_filt[k].Team = team_totals[i].Team => df_filt[k].Date # cum[Len(cum)].Date

C8_UnknownParticipantSurfaced ==
    (fmt = "wide" /\ pc = "done") =>
        /\ \A i \in 1 .. Len(raw.header), j \in 1 .. Len(raw.rows) :
              (raw.header[i] \notin DOMAIN team_map /\ raw.rows[j].cells[raw.header[i]] # NaN)
                  => \E k \in DOMAIN df : df[k].Participant = raw.header[i] /\ df[k].Team = NoTeam
        /\ \A k \in DOMAIN df_filt :
              df_filt[k].Participant \notin DOMAIN team_map =>
                  /\ \E i \in DOMAIN indv : indv[i].Participant = df_filt[k].Participant
                  /\ \E i \in DOMAIN team_totals : team_totals[i].Team = df_filt[k].Team

\* C9: TeamTotals is in descending order of total, teams with equal totals
\* in ascending lexical order of their identifiers.
TeamOrder == <<"Team 1", "Team 2", "Team 3", "Team 4">>
C9_TeamTotalsOrder ==
    pc = "done" =>
        \A i, j \in DOMAIN team_totals :
            i < j =>
                /\ team_totals[i].Score >= team_totals[j].Score
                /\ team_totals[i].Score = team_totals[j].Score =>
                      \E a, b \in DOMAIN TeamOrder :
                          /\ TeamOrder[a] = team_totals[i].Team
                          /\ TeamOrder[b] = team_totals[j].Team
                          /\ a < b

\* C10: for long-format input every row with a missing Steps is dropped, so
\* every record that is scored has a defined Steps and a defined Score.
C10_LongStepsDefined ==
    (fmt = "long" /\ pc \in {"loaded", "done"}) =>
        \A k \in DOMAIN df : df[k].Steps # NaN /\ df[k].Score # NaN

====
